---------------------------- MODULE Spec2Model ----------------------------
(***************************************************************************)
(* Model of sled-agent/src/metrics.rs: the MetricsManager, its map of      *)
(* tracked links (tracked_links), the kstat sampler it drives and the      *)
(* producer registry it registers the sampler with.                        *)
(*                                                                         *)
(* Callers are asynchronous tasks.  A task suspends only at the awaits of  *)
(* add_target / remove_target; the tracked_links mutex is taken for one    *)
(* map operation at a time.  A task may be dropped (cancelled) while it is *)
(* suspended at an await.                                                   *)
(***************************************************************************)
EXTENDS Integers, Sequences, FiniteSets, TLC

\* ------------------------------------------------------------------ bounds
MaxTargets == 2        \* add_target requests the sampler is sent in a run
MAX_LEN == 2           \* bytes gethostname may write (256 in the source)

Tasks == {1, 2}         \* concurrent callers of the manager
LinkNames == {"net0", "net1"}
Handles == 1..MaxTargets
NoId == 0              \* Option::None of a TargetId
NoTask == 0            \* the mutex is free

Uuids == {"U1"}
Baseboards ==
    { [type |-> "Gimlet", identifier |-> "BRM42"],
      [type |-> "Pc", identifier |-> "pc-1"],
      [type |-> "Unknown", identifier |-> ""] }
\* NUL, 'a', a continuation byte, the lead byte of a two-byte sequence, and
\* a byte no UTF-8 text contains
Bytes == {0, 97, 128, 194, 255}
VirtualHostnames == {<<118>>}

UnsupportedMsg == "kstat metrics are not supported on this platform"

\* --------------------------------------------------------------- variables
VARIABLES
    platform,       \* "illumos" or "other": which cfg branch was compiled
    mgr,            \* "none" before new(), then "ok" or "failed"
    newResult,      \* what new() returned
    metadata,       \* MetricsManager.metadata (SledIdentifiers)
    registry,       \* ProducerRegistry: its id and its registered producers
    regAttempts,    \* register_producer calls made so far
    samplerUp,      \* KstatSampler::new succeeded
    targets,        \* sampler: entry of every target ever added, by id
    live,           \* sampler: ids of the targets it currently samples
    removeCalls,    \* sampler: remove_target calls received, per id
    tracked_links,  \* MetricsManager.tracked_links: link name -> id or NoId
    lock,           \* holder of the tracked_links mutex, or NoTask
    tasks,          \* per task: the call it is in (pc, op, link_name, locals,
                    \*   request sent, reply not yet received, snap)
    returned,       \* the return the latest step made, if it made one:
                    \*   op, link_name, result
    inserter,       \* history: per name, the task whose insert wrote the entry
    superseded,     \* history: ids overwritten in the map by an insert
    virtDone,       \* history: ids whose track_virtual_link returned Ok
    orphaned,       \* history: ids whose add_target reply a cancellation lost
    abandoned,      \* history: ids a stop took out of the map and whose
                    \*   remove_target a cancellation withdrew
    syscall,        \* hostname() on its own: what gethostname left behind
    hostnameRet     \* hostname() on its own: what it returned

mgrVars == <<platform, mgr, newResult, metadata, registry, regAttempts, samplerUp>>
samplerVars == <<targets, live, removeCalls>>
histVars == <<inserter, superseded, virtDone, orphaned, abandoned>>
hostVars == <<syscall, hostnameRet>>
vars == <<mgrVars, samplerVars, tracked_links, lock, tasks, returned, histVars, hostVars>>

\* ------------------------------------------------------------ value shapes
NoMeta == [sled_id |-> "", rack_id |-> "", baseboard |-> [type |-> "Unknown", identifier |-> ""]]
NoRegistry == [id |-> "", producers |-> 0]
NoLink == [kind |-> "none", rack_id |-> "", sled_id |-> "", serial |-> "",
           hostname |-> <<>>, link_name |-> ""]
\* What the sampler is handed of a target and records in its table: its
\* kind, its link name and the serial it is labelled with.
TargetEntry(link) == [kind |-> link.kind, link_name |-> link.link_name, serial |-> link.serial]
\* CollectionDetails::never(interval)
Never(interval) == [expiry |-> "never", interval |-> interval]
NoReq == [type |-> "none", link |-> TargetEntry(NoLink), details |-> Never(0), id |-> NoId]
NoResp == [status |-> "none", id |-> NoId]
NoResult == [kind |-> "None", msg |-> ""]
Ok == [kind |-> "Ok", msg |-> ""]
KstatErr == [kind |-> "Kstat", msg |-> "KstatError"]
KstatUnsupported == [kind |-> "Kstat", msg |-> UnsupportedMsg]
RegistryErr == [kind |-> "Registry", msg |-> "MetricsError"]
ErrOf(k) == [kind |-> k, msg |-> ""]
\* A task that is in no call.
Idle == [pc |-> "idle", op |-> "none", link_name |-> "", id |-> NoId,
         req |-> NoReq, resp |-> NoResp, snap |-> {}]
NoReturn == [op |-> "none", link_name |-> "", result |-> NoResult]
NoSyscall == [rc |-> 1, written |-> <<>>]
NoHostnameRet == [ok |-> FALSE, err |-> "none", name |-> <<>>]

\* ------------------------------------------------------------ hostname()
\* The buffer after gethostname: what the call wrote, then the zeroes the
\* vec![0u8; MAX_LEN + 1] was created with.
RECURSIVE Zeroes(_)
Zeroes(n) == IF n = 0 THEN <<>> ELSE <<0>> \o Zeroes(n - 1)

OutBuffer(written) == written \o Zeroes(MAX_LEN + 1 - Len(written))

\* out.split(|x| *x == 0).next(): the bytes before the first NUL, or the
\* whole slice when it holds none.  split() yields at least one chunk.
RECURSIVE FirstChunk(_)
FirstChunk(s) ==
    IF s = <<>> \/ Head(s) = 0 THEN <<>> ELSE <<Head(s)>> \o FirstChunk(Tail(s))

SplitNext(out) == [some |-> TRUE, chunk |-> FirstChunk(out)]

\* CString::new fails on an interior NUL.
HasNul(chunk) == \E i \in 1..Len(chunk) : chunk[i] = 0

\* String::from_utf8 on the byte values of the model: ASCII is text, a
\* two-byte sequence is a lead byte 0xC2..0xDF and a continuation byte.
RECURSIVE IsUtf8(_)
IsUtf8(s) ==
    IF s = <<>> THEN TRUE
    ELSE IF Head(s) < 128 THEN IsUtf8(Tail(s))
    ELSE IF Head(s) >= 194 /\ Head(s) <= 223 /\ Len(s) >= 2
            /\ s[2] >= 128 /\ s[2] <= 191
         THEN IsUtf8(Tail(Tail(s)))
    ELSE FALSE

hostname(rc, written) ==
    IF rc = 0
    THEN LET nxt == SplitNext(OutBuffer(written)) IN
         IF ~nxt.some THEN [ok |-> FALSE, err |-> "HostnameMissingNull", name |-> <<>>]
         ELSE IF HasNul(nxt.chunk) THEN [ok |-> FALSE, err |-> "NonUtf8Hostname", name |-> <<>>]
         ELSE IF ~IsUtf8(nxt.chunk) THEN [ok |-> FALSE, err |-> "NonUtf8Hostname", name |-> <<>>]
         ELSE [ok |-> TRUE, err |-> "", name |-> nxt.chunk]
    ELSE [ok |-> FALSE, err |-> "NonUtf8Hostname", name |-> <<>>]

\* What gethostname can leave behind: a return code and up to MAX_LEN bytes.
RECURSIVE SeqsUpTo(_)
SeqsUpTo(n) ==
    IF n = 0 THEN {<<>>}
    ELSE SeqsUpTo(n - 1) \cup {s \o <<b>> : s \in {x \in SeqsUpTo(n - 1) : Len(x) = n - 1}, b \in Bytes}

GethostnameOutcomes == {0, -1} \X SeqsUpTo(MAX_LEN)

\* The results hostname() can give on those outcomes.
HostnameResults == {hostname(o[1], o[2]) : o \in GethostnameOutcomes}

\* --------------------------------------------------------- serial_number()
\* Variant: only a Gimlet is taken to carry a serial.
serial_number_GimletOnly(md) ==
    CASE md.baseboard.type = "Gimlet" -> md.baseboard.identifier
      [] md.baseboard.type = "Unknown" -> "unknown"
      [] md.baseboard.type = "Pc" -> "unknown"

serial_number(md) ==
    CASE md.baseboard.type = "Gimlet" -> md.baseboard.identifier
      [] md.baseboard.type = "Unknown" -> "unknown"
      [] md.baseboard.type = "Pc" -> md.baseboard.identifier

\* ------------------------------------------------------- BTreeMap helpers
EmptyMap == [n \in LinkNames |-> NoId]
\* Variant: the entry API, which keeps an entry that is already there.
BTreeInsert_KeepExisting(m, k, v) == IF m[k] # NoId THEN m ELSE [m EXCEPT ![k] = v]
\* Variant: the map is rebuilt from the one new entry.
BTreeInsert_Clobber(m, k, v) == [x \in LinkNames |-> IF x = k THEN v ELSE NoId]
\* Variant: the insert is lost.
BTreeInsert_Drop(m, k, v) == m
BTreeInsert(m, k, v) == [m EXCEPT ![k] = v]
\* Variant: the entry is read, not taken out (get in place of remove).
BTreeRemove_Get(m, k) == m
\* Variant: every entry is dropped, not only the one of the key.
BTreeRemove_All(m, k) == [x \in LinkNames |-> NoId]
BTreeRemove(m, k) == [m EXCEPT ![k] = NoId]
BTreeGet(m, k) == m[k]

\* ------------------------------------------------------------------- Init
Init ==
    /\ platform \in {"illumos", "other"}
    /\ mgr = "none"
    /\ newResult = NoResult
    /\ metadata = NoMeta
    /\ registry = NoRegistry
    /\ regAttempts = 0
    /\ samplerUp = FALSE
    /\ targets = <<>>
    /\ live = {}
    /\ removeCalls = [h \in Handles |-> 0]
    /\ tracked_links = EmptyMap
    /\ lock = NoTask
    /\ tasks = [t \in Tasks |-> Idle]
    /\ returned = NoReturn
    /\ inserter = [n \in LinkNames |-> NoTask]
    /\ superseded = {}
    /\ virtDone = {}
    /\ orphaned = {}
    /\ abandoned = {}
    /\ syscall = NoSyscall
    /\ hostnameRet = NoHostnameRet

\* ---------------------------------------------------- MetricsManager::new
\* Variant: the result of register_producer is dropped instead of returned.
New_IgnoreRegistryError(sled_id, rack_id, baseboard, samplerOk, regOk) ==
    /\ mgr = "none"
    /\ IF platform = "illumos"
       THEN IF ~samplerOk
            THEN /\ newResult' = KstatErr
                 /\ mgr' = "failed"
                 /\ UNCHANGED <<metadata, registry, regAttempts, samplerUp>>
            ELSE /\ samplerUp' = TRUE
                 /\ regAttempts' = regAttempts + 1
                 /\ newResult' = Ok
                 /\ mgr' = "ok"
                 /\ registry' = [id |-> sled_id, producers |-> IF regOk THEN 1 ELSE 0]
                 /\ metadata' = [sled_id |-> sled_id, rack_id |-> rack_id,
                                 baseboard |-> baseboard]
       ELSE /\ newResult' = Ok
            /\ mgr' = "ok"
            /\ registry' = [id |-> sled_id, producers |-> 0]
            /\ metadata' = [sled_id |-> sled_id, rack_id |-> rack_id,
                            baseboard |-> baseboard]
            /\ UNCHANGED <<regAttempts, samplerUp>>
    /\ tracked_links' = [n \in LinkNames |-> NoId]
    /\ returned' = NoReturn
    /\ UNCHANGED <<platform, samplerVars, lock, tasks, histVars, hostVars>>

\* samplerOk / regOk: whether KstatSampler::new and register_producer succeed.
New(sled_id, rack_id, baseboard, samplerOk, regOk) ==
    /\ mgr = "none"
    /\ IF platform = "illumos"
       THEN IF ~samplerOk
            THEN /\ newResult' = KstatErr
                 /\ mgr' = "failed"
                 /\ UNCHANGED <<metadata, registry, regAttempts, samplerUp>>
            ELSE /\ samplerUp' = TRUE
                 /\ regAttempts' = regAttempts + 1
                 /\ IF ~regOk
                    THEN /\ newResult' = RegistryErr
                         /\ mgr' = "failed"
                         /\ UNCHANGED <<metadata, registry>>
                    ELSE /\ newResult' = Ok
                         /\ mgr' = "ok"
                         /\ registry' = [id |-> sled_id, producers |-> 1]
                         /\ metadata' = [sled_id |-> sled_id, rack_id |-> rack_id,
                                         baseboard |-> baseboard]
       ELSE /\ newResult' = Ok
            /\ mgr' = "ok"
            /\ registry' = [id |-> sled_id, producers |-> 0]
            /\ metadata' = [sled_id |-> sled_id, rack_id |-> rack_id,
                            baseboard |-> baseboard]
            /\ UNCHANGED <<regAttempts, samplerUp>>
    /\ tracked_links' = EmptyMap
    /\ returned' = NoReturn
    /\ UNCHANGED <<platform, samplerVars, lock, tasks, histVars, hostVars>>

\* ------------------------------------------------------------ task helpers
CanCall(t) == mgr = "ok" /\ tasks[t].pc = "idle"

\* add_target requests sent and not yet answered.
PendingAdds == {t \in Tasks : tasks[t].req.type = "add" /\ tasks[t].resp.status = "none"}

RoomForTarget == Len(targets) + Cardinality(PendingAdds) < MaxTargets

LINK_SAMPLE_INTERVAL == 10

PhysicalDataLink(md, host, n) ==
    [kind |-> "physical", rack_id |-> md.rack_id, sled_id |-> md.sled_id,
     serial |-> serial_number(md), hostname |-> host, link_name |-> n]

VirtualDataLink(md, host, n) ==
    [kind |-> "virtual", rack_id |-> md.rack_id, sled_id |-> md.sled_id,
     serial |-> serial_number(md), hostname |-> host, link_name |-> n]

AddReq(link, details) ==
    [type |-> "add", link |-> TargetEntry(link), details |-> details, id |-> NoId]
RemoveReq(h) == [type |-> "remove", link |-> TargetEntry(NoLink), details |-> Never(0), id |-> h]

\* The call `o(n)` of task t returns r to its caller; its locals are gone.
Return(t, o, n, r) ==
    /\ tasks' = [tasks EXCEPT ![t] = Idle]
    /\ returned' = [op |-> o, link_name |-> n, result |-> r]

\* ------------------------------------------- track_physical_link (illumos)
\* The call up to its first await: hostname()?, the descriptor, add_target.
TrackPhysicalCall(t, n) ==
    /\ platform = "illumos"
    /\ CanCall(t)
    /\ \E h \in HostnameResults :
          IF ~h.ok
          THEN Return(t, "track_physical_link", n, ErrOf(h.err))
          ELSE /\ RoomForTarget
               /\ tasks' = [tasks EXCEPT ![t] =
                    [Idle EXCEPT !.pc = "tp_await_add",
                                 !.op = "track_physical_link",
                                 !.link_name = n,
                                 !.req = AddReq(PhysicalDataLink(metadata, h.name, n),
                                                Never(LINK_SAMPLE_INTERVAL))]]
               /\ returned' = NoReturn
    /\ UNCHANGED <<hostVars, mgrVars, samplerVars, tracked_links, lock, histVars>>

\* Variant: a rejected add_target clears the entry of the name.
TrackPhysicalResume_ClearOnErr(t) ==
    /\ tasks[t].pc = "tp_await_add"
    /\ tasks[t].resp.status # "none"
    /\ IF tasks[t].resp.status = "err"
       THEN /\ Return(t, tasks[t].op, tasks[t].link_name, KstatErr)
            /\ tracked_links' = [tracked_links EXCEPT ![tasks[t].link_name] = NoId]
            /\ UNCHANGED lock
       ELSE /\ lock = NoTask
            /\ lock' = t
            /\ tasks' = [tasks EXCEPT ![t].pc = "tp_insert",
                                      ![t].id = tasks[t].resp.id,
                                      ![t].req = NoReq,
                                      ![t].resp = NoResp]
            /\ returned' = NoReturn
            /\ UNCHANGED tracked_links
    /\ UNCHANGED <<hostVars, mgrVars, samplerVars, histVars>>

\* add_target(..).await.map_err(Error::Kstat)? completes: the error is
\* returned, or `id` is bound and self.tracked_links.lock().unwrap() is taken
\* (the task runs on without suspending until the mutex is its own).
TrackPhysicalResume(t) ==
    /\ tasks[t].pc = "tp_await_add"
    /\ tasks[t].resp.status # "none"
    /\ IF tasks[t].resp.status = "err"
       THEN /\ Return(t, tasks[t].op, tasks[t].link_name, KstatErr)
            /\ UNCHANGED lock
       ELSE /\ lock = NoTask
            /\ lock' = t
            /\ tasks' = [tasks EXCEPT ![t].pc = "tp_insert",
                                      ![t].id = tasks[t].resp.id,
                                      ![t].req = NoReq,
                                      ![t].resp = NoResp]
            /\ returned' = NoReturn
    /\ UNCHANGED <<hostVars, mgrVars, samplerVars, tracked_links, histVars>>

\* Variant: Ok(()) is returned without the insert.
TrackPhysicalInsert_NoInsert(t) ==
    /\ tasks[t].pc = "tp_insert"
    /\ lock = t
    /\ Return(t, tasks[t].op, tasks[t].link_name, Ok)
    /\ lock' = NoTask
    /\ UNCHANGED <<hostVars, mgrVars, samplerVars, tracked_links, histVars>>

\* .insert(link_name, id); the guard is dropped; Ok(())
TrackPhysicalInsert(t) ==
    /\ tasks[t].pc = "tp_insert"
    /\ lock = t
    /\ LET n == tasks[t].link_name
           old == BTreeGet(tracked_links, n) IN
       /\ tracked_links' = BTreeInsert(tracked_links, n, tasks[t].id)
       /\ inserter' = [inserter EXCEPT ![n] = t]
       /\ superseded' = IF old # NoId THEN superseded \cup {old} ELSE superseded
       /\ Return(t, tasks[t].op, n, Ok)
    /\ lock' = NoTask
    /\ UNCHANGED <<hostVars, mgrVars, samplerVars, virtDone, orphaned, abandoned>>

\* --------------------------------------------- stop_tracking_link (illumos)
\* The call up to self.tracked_links.lock().unwrap(): it runs once the mutex
\* can be taken.
StopCall(t, n) ==
    /\ platform = "illumos"
    /\ CanCall(t)
    /\ lock = NoTask
    /\ lock' = t
    /\ tasks' = [tasks EXCEPT ![t] =
         [Idle EXCEPT !.pc = "st_remove",
                      !.op = "stop_tracking_link",
                      !.link_name = n,
                      !.snap = {h \in virtDone : targets[h].link_name = n}]]
    /\ returned' = NoReturn
    /\ UNCHANGED <<hostVars, mgrVars, samplerVars, tracked_links, histVars>>

\* Variant: a name that is not tracked is an error.
StopRemove_ErrIfAbsent(t) ==
    /\ tasks[t].pc = "st_remove"
    /\ lock = t
    /\ LET n == tasks[t].link_name
           maybe_id == BTreeGet(tracked_links, n) IN
       /\ tracked_links' = [tracked_links EXCEPT ![n] = NoId]
       /\ inserter' = [inserter EXCEPT ![n] = NoTask]
       /\ IF maybe_id # NoId
          THEN /\ tasks' = [tasks EXCEPT ![t].pc = "st_await_rm",
                                         ![t].id = maybe_id,
                                         ![t].req = RemoveReq(maybe_id)]
               /\ returned' = NoReturn
          ELSE Return(t, tasks[t].op, n, KstatErr)
    /\ lock' = NoTask
    /\ UNCHANGED <<hostVars, mgrVars, samplerVars, superseded, virtDone, orphaned, abandoned>>

\* Variant: the entry is removed and the id is never handed to remove_target.
StopRemove_NoRelease(t) ==
    /\ tasks[t].pc = "st_remove"
    /\ lock = t
    /\ LET n == tasks[t].link_name IN
       /\ tracked_links' = [tracked_links EXCEPT ![n] = NoId]
       /\ inserter' = [inserter EXCEPT ![n] = NoTask]
       /\ Return(t, tasks[t].op, n, Ok)
    /\ lock' = NoTask
    /\ UNCHANGED <<hostVars, mgrVars, samplerVars, superseded, virtDone, orphaned, abandoned>>

\* Variant: the id is looked up and released while its entry stays in the map.
StopRemove_KeepEntry(t) ==
    /\ tasks[t].pc = "st_remove"
    /\ lock = t
    /\ LET n == tasks[t].link_name
           maybe_id == BTreeGet(tracked_links, n) IN
       /\ IF maybe_id # NoId
          THEN /\ tasks' = [tasks EXCEPT ![t].pc = "st_await_rm",
                                         ![t].id = maybe_id,
                                         ![t].req = RemoveReq(maybe_id)]
               /\ returned' = NoReturn
          ELSE Return(t, tasks[t].op, n, Ok)
    /\ lock' = NoTask
    /\ UNCHANGED <<hostVars, mgrVars, samplerVars, tracked_links, histVars>>

\* Variant: the guard is bound to a local and lives across the await.
StopRemove_HoldLock(t) ==
    /\ tasks[t].pc = "st_remove"
    /\ lock = t
    /\ LET n == tasks[t].link_name
           maybe_id == BTreeGet(tracked_links, n) IN
       /\ tracked_links' = [tracked_links EXCEPT ![n] = NoId]
       /\ inserter' = [inserter EXCEPT ![n] = NoTask]
       /\ IF maybe_id # NoId
          THEN /\ tasks' = [tasks EXCEPT ![t].pc = "st_await_rm",
                                         ![t].id = maybe_id,
                                         ![t].req = RemoveReq(maybe_id)]
               /\ returned' = NoReturn
               /\ lock' = t
          ELSE /\ Return(t, tasks[t].op, n, Ok)
               /\ lock' = NoTask
    /\ UNCHANGED <<hostVars, mgrVars, samplerVars, superseded, virtDone, orphaned, abandoned>>

\* let maybe_id = ...remove(link_name); the guard is dropped; then either
\* remove_target(id) is sent, or the call returns Ok(()).
StopRemove(t) ==
    /\ tasks[t].pc = "st_remove"
    /\ lock = t
    /\ LET n == tasks[t].link_name
           maybe_id == BTreeGet(tracked_links, n) IN
       /\ tracked_links' = BTreeRemove(tracked_links, n)
       /\ inserter' = [inserter EXCEPT ![n] = NoTask]
       /\ IF maybe_id # NoId
          THEN /\ tasks' = [tasks EXCEPT ![t].pc = "st_await_rm",
                                         ![t].id = maybe_id,
                                         ![t].req = RemoveReq(maybe_id)]
               /\ returned' = NoReturn
          ELSE Return(t, tasks[t].op, n, Ok)
    /\ lock' = NoTask
    /\ UNCHANGED <<hostVars, mgrVars, samplerVars, superseded, virtDone, orphaned, abandoned>>

\* Variant: a rejected removal puts the entry back.
StopResume_RestoreOnErr(t) ==
    /\ tasks[t].pc = "st_await_rm"
    /\ tasks[t].resp.status # "none"
    /\ Return(t, tasks[t].op, tasks[t].link_name,
              IF tasks[t].resp.status = "ok" THEN Ok ELSE KstatErr)
    /\ tracked_links' = IF tasks[t].resp.status = "err"
                        THEN [tracked_links EXCEPT ![tasks[t].link_name] = tasks[t].id]
                        ELSE tracked_links
    /\ UNCHANGED <<hostVars, mgrVars, samplerVars, lock, histVars>>

\* remove_target(id).await.map_err(Error::Kstat) completes.
StopResume(t) ==
    /\ tasks[t].pc = "st_await_rm"
    /\ tasks[t].resp.status # "none"
    /\ Return(t, tasks[t].op, tasks[t].link_name,
              IF tasks[t].resp.status = "ok" THEN Ok ELSE KstatErr)
    /\ UNCHANGED <<hostVars, mgrVars, samplerVars, tracked_links, lock, histVars>>

\* --------------------------------------------- track_virtual_link (illumos)
TrackVirtualCall(t, n, host) ==
    /\ platform = "illumos"
    /\ CanCall(t)
    /\ RoomForTarget
    /\ tasks' = [tasks EXCEPT ![t] =
         [Idle EXCEPT !.pc = "tv_await_add",
                      !.op = "track_virtual_link",
                      !.link_name = n,
                      !.req = AddReq(VirtualDataLink(metadata, host, n),
                                     Never(LINK_SAMPLE_INTERVAL))]]
    /\ returned' = NoReturn
    /\ UNCHANGED <<hostVars, mgrVars, samplerVars, tracked_links, lock, histVars>>

\* Variant: the id of the virtual link is recorded like a physical link's.
TrackVirtualResume_Tracks(t) ==
    /\ tasks[t].pc = "tv_await_add"
    /\ tasks[t].resp.status # "none"
    /\ Return(t, tasks[t].op, tasks[t].link_name,
              IF tasks[t].resp.status = "ok" THEN Ok ELSE KstatErr)
    /\ virtDone' = IF tasks[t].resp.status = "ok"
                   THEN virtDone \cup {tasks[t].resp.id} ELSE virtDone
    /\ tracked_links' = IF tasks[t].resp.status = "ok"
                        THEN [tracked_links EXCEPT ![tasks[t].link_name] = tasks[t].resp.id]
                        ELSE tracked_links
    /\ UNCHANGED <<hostVars, mgrVars, samplerVars, lock, inserter, superseded, orphaned, abandoned>>

\* add_target(..).await.map(|_| ()).map_err(Error::Kstat) completes.
TrackVirtualResume(t) ==
    /\ tasks[t].pc = "tv_await_add"
    /\ tasks[t].resp.status # "none"
    /\ Return(t, tasks[t].op, tasks[t].link_name,
              IF tasks[t].resp.status = "ok" THEN Ok ELSE KstatErr)
    /\ virtDone' = IF tasks[t].resp.status = "ok"
                   THEN virtDone \cup {tasks[t].resp.id} ELSE virtDone
    /\ UNCHANGED <<hostVars, mgrVars, samplerVars, tracked_links, lock,
                   inserter, superseded, orphaned, abandoned>>

\* ------------------------------------------------------------ KstatSampler
\* The sampler serves the add_target request of task t: it accepts, starts
\* sampling the target and answers with a fresh id, or it rejects.
AddTarget(t, accept) ==
    /\ samplerUp
    /\ tasks[t].req.type = "add"
    /\ tasks[t].resp.status = "none"
    /\ IF accept
       THEN LET h == Len(targets) + 1 IN
            /\ targets' = Append(targets, tasks[t].req.link)
            /\ live' = live \cup {h}
            /\ tasks' = [tasks EXCEPT ![t].resp = [status |-> "ok", id |-> h]]
       ELSE /\ tasks' = [tasks EXCEPT ![t].resp = [status |-> "err", id |-> NoId]]
            /\ UNCHANGED <<targets, live>>
    /\ returned' = NoReturn
    /\ UNCHANGED <<hostVars, mgrVars, removeCalls, tracked_links, lock, histVars>>

\* The sampler serves the remove_target request of task t: it stops sampling
\* the target, or rejects (always so for an id it does not sample).
RemoveTarget(t, accept) ==
    /\ samplerUp
    /\ tasks[t].req.type = "remove"
    /\ tasks[t].resp.status = "none"
    /\ removeCalls' = [removeCalls EXCEPT ![tasks[t].req.id] = @ + 1]
    /\ IF accept /\ tasks[t].req.id \in live
       THEN /\ live' = live \ {tasks[t].req.id}
            /\ tasks' = [tasks EXCEPT ![t].resp = [status |-> "ok", id |-> tasks[t].req.id]]
       ELSE /\ tasks' = [tasks EXCEPT ![t].resp = [status |-> "err", id |-> NoId]]
            /\ UNCHANGED live
    /\ returned' = NoReturn
    /\ UNCHANGED <<hostVars, mgrVars, targets, tracked_links, lock, histVars>>

\* ------------------------------------------------------------ cancellation
\* The caller drops the future while it is suspended at an await: nothing is
\* returned.  A request the sampler has not served yet is taken to be
\* withdrawn; one it has served keeps its effect and its reply is lost.
AwaitPcs == {"tp_await_add", "tv_await_add", "st_await_rm"}

\* Variant: dropping the future undoes an add_target the sampler has served.
Cancel_Rollback(t) ==
    /\ tasks[t].pc \in AwaitPcs
    /\ tasks' = [tasks EXCEPT ![t] = Idle]
    /\ orphaned' = IF tasks[t].req.type = "add" /\ tasks[t].resp.status = "ok"
                   THEN orphaned \cup {tasks[t].resp.id} ELSE orphaned
    /\ abandoned' = IF tasks[t].req.type = "remove" /\ tasks[t].resp.status = "none"
                    THEN abandoned \cup {tasks[t].req.id} ELSE abandoned
    /\ live' = IF tasks[t].req.type = "add" /\ tasks[t].resp.status = "ok"
               THEN live \ {tasks[t].resp.id} ELSE live
    /\ returned' = NoReturn
    /\ UNCHANGED <<hostVars, mgrVars, targets, removeCalls, tracked_links, lock,
                   inserter, superseded, virtDone>>

Cancel(t) ==
    /\ tasks[t].pc \in AwaitPcs
    /\ tasks' = [tasks EXCEPT ![t] = Idle]
    /\ orphaned' = IF tasks[t].req.type = "add" /\ tasks[t].resp.status = "ok"
                   THEN orphaned \cup {tasks[t].resp.id} ELSE orphaned
    /\ abandoned' = IF tasks[t].req.type = "remove" /\ tasks[t].resp.status = "none"
                    THEN abandoned \cup {tasks[t].req.id} ELSE abandoned
    /\ returned' = NoReturn
    /\ UNCHANGED <<hostVars, mgrVars, samplerVars, tracked_links, lock,
                   inserter, superseded, virtDone>>

\* ------------------------------------------------- the not(illumos) variant
StubTrackPhysical(t, n) ==
    /\ platform = "other"
    /\ CanCall(t)
    /\ Return(t, "track_physical_link", n, KstatUnsupported)
    /\ UNCHANGED <<hostVars, mgrVars, samplerVars, tracked_links, lock, histVars>>

\* Variant: stopping is a successful no-op where nothing can be tracked.
StubStop_Ok(t, n) ==
    /\ platform = "other"
    /\ CanCall(t)
    /\ Return(t, "stop_tracking_link", n, Ok)
    /\ UNCHANGED <<hostVars, mgrVars, samplerVars, tracked_links, lock, histVars>>

StubStop(t, n) ==
    /\ platform = "other"
    /\ CanCall(t)
    /\ Return(t, "stop_tracking_link", n, KstatUnsupported)
    /\ UNCHANGED <<hostVars, mgrVars, samplerVars, tracked_links, lock, histVars>>

StubTrackVirtual(t, n, host) ==
    /\ platform = "other"
    /\ CanCall(t)
    /\ Return(t, "track_virtual_link", n, KstatUnsupported)
    /\ UNCHANGED <<hostVars, mgrVars, samplerVars, tracked_links, lock, histVars>>

\* ------------------------------------------------------------------- Next
Next ==
    \/ \E s \in Uuids, r \in Uuids, b \in Baseboards, so \in BOOLEAN, ro \in BOOLEAN :
          New(s, r, b, so, ro)
    \/ \E t \in Tasks, n \in LinkNames : TrackPhysicalCall(t, n)
    \/ \E t \in Tasks : TrackPhysicalResume(t)
    \/ \E t \in Tasks : TrackPhysicalInsert(t)
    \/ \E t \in Tasks, n \in LinkNames : StopCall(t, n)
    \/ \E t \in Tasks : StopRemove(t)
    \/ \E t \in Tasks : StopResume(t)
    \/ \E t \in Tasks, n \in LinkNames, h \in VirtualHostnames : TrackVirtualCall(t, n, h)
    \/ \E t \in Tasks : TrackVirtualResume(t)
    \/ \E t \in Tasks, a \in BOOLEAN : AddTarget(t, a)
    \/ \E t \in Tasks, a \in BOOLEAN : RemoveTarget(t, a)
    \/ \E t \in Tasks : Cancel(t)
    \/ \E t \in Tasks, n \in LinkNames : StubTrackPhysical(t, n)
    \/ \E t \in Tasks, n \in LinkNames : StubStop(t, n)
    \/ \E t \in Tasks, n \in LinkNames, h \in VirtualHostnames : StubTrackVirtual(t, n, h)

Spec == Init /\ [][Next]_vars

\* ------------------------------------------------- hostname() on its own
\* libc::gethostname(out, MAX_LEN) gives a return code and leaves up to
\* MAX_LEN bytes in the buffer.
Gethostname(rc, written) ==
    /\ syscall = NoSyscall
    /\ syscall' = [rc |-> rc, written |-> written]
    /\ UNCHANGED <<mgrVars, samplerVars, tracked_links, lock, tasks, returned,
                   histVars, hostnameRet>>

\* The rest of hostname(): what it returns on that outcome.
HostnameReturn ==
    /\ syscall # NoSyscall
    /\ hostnameRet = NoHostnameRet
    /\ hostnameRet' = hostname(syscall.rc, syscall.written)
    /\ UNCHANGED <<mgrVars, samplerVars, tracked_links, lock, tasks, returned,
                   histVars, syscall>>

HostnameNext ==
    \/ \E o \in GethostnameOutcomes : Gethostname(o[1], o[2])
    \/ HostnameReturn

HostnameSpec == Init /\ [][HostnameNext]_vars

\* ----------------------------------------------------------------- claims
\* Task t took a step of its own call, or the sampler served its request.
Stepped(t) == tasks'[t] # tasks[t]

\* Task t left position p in this step.
Left(t, p) == tasks[t].pc = p /\ tasks'[t].pc # p

\* The call of task t, at position p, returned to its caller in this step
\* (a cancelled call leaves its position and returns nothing).
Returns(t, p) == Left(t, p) /\ returned' # NoReturn

AllIdle == \A t \in Tasks : tasks[t] = Idle

TargetIds == 1..Len(targets)

TrackedIds == {tracked_links[n] : n \in LinkNames} \ {NoId}

\* C1: stop_tracking_link(n) for a name n that is not in the tracker returns
\* Ok, sends no remove_target, and leaves the tracker and the sampler (its
\* targets, its live set, the remove_target calls it has seen) as they were.
C1_StopAbsentIsNoOp ==
    [][\A t \in Tasks :
         (Left(t, "st_remove") /\ tracked_links[tasks[t].link_name] = NoId)
         => /\ returned' = [op |-> "stop_tracking_link",
                            link_name |-> tasks[t].link_name, result |-> Ok]
            /\ tasks'[t] = Idle
            /\ tracked_links' = tracked_links
            /\ UNCHANGED samplerVars]_vars

\* A stop of a name no physical link was ever tracked under has returned Ok
\* while the sampler holds live targets.
C1_Witness ==
    /\ returned.op = "stop_tracking_link"
    /\ returned.result = Ok
    /\ live # {}
    /\ \A h \in TargetIds :
          ~(targets[h].kind = "physical" /\ targets[h].link_name = returned.link_name)

\* C2: when track_physical_link(n) returns Ok, the tracker maps n to the id
\* this call's add_target returned, a live target of the sampler that is the
\* physical link n.
C2_TrackStoresOwnHandle ==
    /\ [](\A t \in Tasks : tasks[t].pc = "tp_insert"
            => /\ tasks[t].id \in live
               /\ targets[tasks[t].id].kind = "physical"
               /\ targets[tasks[t].id].link_name = tasks[t].link_name)
    /\ [][\A t \in Tasks :
            /\ (tasks[t].pc = "tp_await_add" /\ tasks'[t].pc = "tp_insert")
               => /\ tasks[t].resp.status = "ok"
                  /\ tasks'[t].id = tasks[t].resp.id
            /\ Left(t, "tp_insert")
               => /\ returned' = [op |-> "track_physical_link",
                                  link_name |-> tasks[t].link_name, result |-> Ok]
                  /\ tracked_links'[tasks[t].link_name] = tasks[t].id
                  /\ tasks[t].id \in live'
            /\ (returned'.op = "track_physical_link" /\ returned'.result = Ok)
               => \E u \in Tasks : Left(u, "tp_insert")]_vars

C2_Witness ==
    /\ returned.op = "track_physical_link"
    /\ returned.result = Ok
    /\ tracked_links[returned.link_name] \in live

\* C3: stop_tracking_link(n) for n mapped to h removes n from the tracker and
\* hands h to remove_target, once; when the sampler accepts, the call returns
\* Ok and h is no longer live; an id the tracker holds was never handed to
\* remove_target, so a later track_physical_link(n) stores an id other than h.
C3_StopReleasesHandle ==
    /\ [](/\ \A t \in Tasks : tasks[t].pc = "st_await_rm"
               => /\ tasks[t].req = RemoveReq(tasks[t].id)
                  /\ tracked_links[tasks[t].link_name] # tasks[t].id
                  /\ removeCalls[tasks[t].id] =
                        IF tasks[t].resp.status = "none" THEN 0 ELSE 1
          /\ \A h \in TrackedIds : removeCalls[h] = 0)
    /\ [][\A t \in Tasks :
            /\ (Left(t, "st_remove") /\ tracked_links[tasks[t].link_name] # NoId)
               => /\ tracked_links'[tasks[t].link_name] = NoId
                  /\ tasks'[t].pc = "st_await_rm"
                  /\ tasks'[t].id = tracked_links[tasks[t].link_name]
                  /\ returned' = NoReturn
            /\ (Returns(t, "st_await_rm") /\ tasks[t].resp.status = "ok")
               => /\ returned' = [op |-> "stop_tracking_link",
                                  link_name |-> tasks[t].link_name, result |-> Ok]
                  /\ tasks[t].id \notin live'
            /\ (Returns(t, "st_await_rm") /\ tasks[t].resp.status = "err")
               => returned'.result = KstatErr]_vars

\* n was tracked, stopped (its id released) and tracked again under another id.
C3_Witness ==
    /\ returned.op = "track_physical_link"
    /\ returned.result = Ok
    /\ tracked_links[returned.link_name] \in live
    /\ \E h \in TargetIds :
          /\ targets[h].kind = "physical"
          /\ targets[h].link_name = returned.link_name
          /\ removeCalls[h] = 1
          /\ h \notin live
          /\ h # tracked_links[returned.link_name]

\* C4: a track_physical_link(n) that finds n already mapped overwrites the
\* entry with its own id and releases nothing; the superseded id stays live,
\* is never handed to remove_target and is never in the tracker again.
C4_LastWriteWinsAndLeaks ==
    /\ [](\A h \in superseded :
            /\ h \in live
            /\ removeCalls[h] = 0
            /\ h \notin TrackedIds)
    /\ [][\A t \in Tasks :
            (Left(t, "tp_insert") /\ tracked_links[tasks[t].link_name] # NoId)
            => /\ tracked_links' =
                    [tracked_links EXCEPT ![tasks[t].link_name] = tasks[t].id]
               /\ tasks[t].id # tracked_links[tasks[t].link_name]
               /\ tracked_links[tasks[t].link_name] \in superseded'
               /\ tasks'[t] = Idle
               /\ UNCHANGED samplerVars]_vars

\* n was tracked twice and then stopped: the later id is released, the
\* superseded one is still sampled.
C4_Witness ==
    /\ returned.op = "stop_tracking_link"
    /\ returned.result = Ok
    /\ \E h \in superseded, h2 \in TargetIds :
          /\ targets[h].link_name = returned.link_name
          /\ h \in live
          /\ targets[h2].link_name = returned.link_name
          /\ targets[h2].kind = "physical"
          /\ h2 # h
          /\ removeCalls[h2] = 1
          /\ h2 \notin live

C6_StopReleasesVirtual ==
    [][\A t \in Tasks :
         (tasks[t].op = "stop_tracking_link" /\ tasks'[t] = Idle /\ returned'.result = Ok)
         => \A h \in tasks[t].snap : h \notin live']_vars

\* C7: where kstats are not supported, every call of the three operations
\* returns Kstat("kstat metrics are not supported on this platform"), and no
\* step after new() changes the manager: its metadata, its registry, and the
\* (absent) sampler and tracker.
C7_StubAlwaysFails ==
    /\ [](platform = "other"
            => /\ returned \in {NoReturn} \cup
                    [op : {"track_physical_link", "stop_tracking_link", "track_virtual_link"},
                     link_name : LinkNames, result : {KstatUnsupported}]
               /\ AllIdle
               /\ ~samplerUp /\ targets = <<>> /\ live = {}
               /\ tracked_links = EmptyMap /\ lock = NoTask
               /\ registry.producers = 0 /\ regAttempts = 0)
    /\ [][(platform = "other" /\ mgr = "ok")
            => /\ returned' # NoReturn
               /\ returned'.result.kind = "Kstat"
               /\ returned'.result.msg = UnsupportedMsg
               /\ UNCHANGED <<hostVars, mgrVars, samplerVars, tracked_links, lock, tasks, histVars>>]_vars

C7_Witness ==
    /\ platform = "other"
    /\ returned.op = "stop_tracking_link"
    /\ returned.result = KstatUnsupported
    /\ metadata.baseboard.type = "Gimlet"

\* C8: on illumos new() yields a manager only when KstatSampler::new and
\* register_producer both succeeded; a sampler failure returns Kstat before
\* any registration, a registration failure returns Registry and no manager;
\* the sampler is registered once, by new() alone, and the tracker of a new
\* manager is empty.
C8_ConstructionAllOrNothing ==
    /\ [](/\ regAttempts <= 1 /\ registry.producers <= 1
          /\ (mgr = "none") = (newResult = NoResult)
          /\ (mgr = "ok") = (newResult = Ok)
          /\ (mgr = "ok" /\ platform = "illumos")
                => samplerUp /\ regAttempts = 1 /\ registry.producers = 1
          /\ newResult.kind = "Kstat"
                => mgr = "failed" /\ ~samplerUp /\ regAttempts = 0 /\ registry = NoRegistry
          /\ newResult.kind = "Registry"
                => mgr = "failed" /\ samplerUp /\ regAttempts = 1 /\ registry = NoRegistry
          /\ mgr # "ok"
                => AllIdle /\ targets = <<>> /\ tracked_links = EmptyMap /\ metadata = NoMeta)
    /\ [][/\ mgr = "none" /\ mgr' = "ok"
             => tracked_links' = EmptyMap /\ targets' = <<>> /\ live' = {}
          /\ mgr # "none"
             => UNCHANGED <<mgr, newResult, registry, regAttempts, samplerUp, metadata>>]_vars

\* The manager is in use, with links tracked, and its one registration stands.
C8_Witness ==
    /\ platform = "illumos"
    /\ mgr = "ok"
    /\ registry.producers = 1
    /\ TrackedIds # {}
    /\ Len(targets) = MaxTargets

\* C9: concurrent track_physical_link calls on distinct names lose no update:
\* once add_target has accepted, a call returns nothing but Ok, and every
\* name whose latest map operation is an insert is in the tracker, mapped to
\* a live physical target of that very name, no two names to the same id.
C9_NoLostUpdate ==
    /\ [](/\ \A n \in LinkNames : inserter[n] # NoTask
               => /\ tracked_links[n] \in live
                  /\ targets[tracked_links[n]].kind = "physical"
                  /\ targets[tracked_links[n]].link_name = n
          /\ \A n1, n2 \in LinkNames :
               (n1 # n2 /\ tracked_links[n1] # NoId) => tracked_links[n1] # tracked_links[n2])
    /\ [][\A t \in Tasks :
            (tasks[t].op = "track_physical_link" /\ returned' # NoReturn /\ Stepped(t)
               /\ (tasks[t].pc = "tp_insert" \/ tasks[t].resp.status = "ok"))
            => /\ returned'.result = Ok
               /\ inserter'[tasks[t].link_name] = t
               /\ \A n \in LinkNames \ {tasks[t].link_name} :
                     inserter'[n] = inserter[n] /\ tracked_links'[n] = tracked_links[n]]_vars

\* Both tasks have tracked a name of their own, and both entries stand.
C9_Witness ==
    /\ AllIdle
    /\ \A n \in LinkNames : inserter[n] # NoTask
    /\ \A n1, n2 \in LinkNames : n1 # n2 => inserter[n1] # inserter[n2]

\* The link name of the call of task t that moves in this step.
CallName(t) == IF tasks[t].pc = "idle" THEN tasks'[t].link_name ELSE tasks[t].link_name

\* C10: a step of a track_physical_link, track_virtual_link or
\* stop_tracking_link call on a name n2, whatever its outcome, leaves the
\* entry of every other name n1 as it was and its id live if it was live.
C10_OtherNamesUntouched ==
    [][\A n1 \in LinkNames :
         (\/ \E t \in Tasks : Stepped(t) /\ CallName(t) # n1
          \/ returned' # NoReturn /\ returned'.link_name # n1)
         => /\ tracked_links'[n1] = tracked_links[n1]
            /\ (tracked_links[n1] \in live => tracked_links[n1] \in live')]_vars

\* A stop of n2 has released n2's id while n1 is tracked and sampled.
C10_Witness ==
    /\ returned.op = "stop_tracking_link"
    /\ returned.result = Ok
    /\ \E n1 \in LinkNames \ {returned.link_name} : tracked_links[n1] \in live
    /\ \E h \in TargetIds :
          targets[h].link_name = returned.link_name /\ removeCalls[h] = 1 /\ h \notin live

\* C11: in every reachable state, whatever the interleaving of the calls,
\* every id the tracker holds is live in the sampler: add_target returned it
\* and no remove_target was ever sent for it.
C11_TrackedIsLive ==
    \A n \in LinkNames : tracked_links[n] # NoId
        => /\ tracked_links[n] \in TargetIds
           /\ tracked_links[n] \in live
           /\ removeCalls[tracked_links[n]] = 0

\* One id has been released by a stop whose reply is not yet consumed, while
\* another name is still tracked.
C11_Witness ==
    /\ TrackedIds # {}
    /\ \E t \in Tasks :
          /\ tasks[t].pc = "st_await_rm"
          /\ tasks[t].resp.status = "ok"
          /\ tasks[t].id \notin live

\* C12: in stop_tracking_link the removal of the name from the tracker and
\* the release of its id happen in one critical section: whenever a stop has
\* taken an id out of the map and the sampler still samples it, that stop
\* holds the tracked_links mutex, so no other task sees the tracker without
\* an id that is still live.
C12_RemoveAndReleaseTogether ==
    \A t \in Tasks :
        (tasks[t].pc = "st_await_rm" /\ tasks[t].id \in live) => lock = t

\* The positions at which a task is inside the one map operation of its call.
MapOpPcs == {"tp_insert", "st_remove"}

\* C13: the tracked_links mutex is held exactly while its holder is at the
\* one map insert or remove of its call, an operation that can always run to
\* its end; a task suspended in add_target or remove_target does not hold
\* it, so while a task waits for the sampler the lock is free, or is held by
\* a task that can finish its map operation, and an idle task can start a
\* stop_tracking_link and take it.
C13_LockOnlyForMapOp ==
    /\ lock \in Tasks \cup {NoTask}
    /\ \A t \in Tasks : (lock = t) <=> (tasks[t].pc \in MapOpPcs)
    /\ \A t \in Tasks : tasks[t].pc \in AwaitPcs \cup {"idle"} => lock # t
    /\ lock # NoTask => ENABLED (TrackPhysicalInsert(lock) \/ StopRemove(lock))
    /\ \A t, u \in Tasks :
          (tasks[t].pc \in AwaitPcs /\ lock = NoTask /\ tasks[u].pc = "idle")
          => \A n \in LinkNames : ENABLED StopCall(u, n)

\* One task is suspended in the sampler, its request not yet served, while
\* the other holds the lock for its insert.
C13_Witness ==
    \E t, u \in Tasks :
        /\ tasks[t].pc \in {"tp_await_add", "st_await_rm"}
        /\ tasks[t].resp.status = "none"
        /\ tasks[u].pc = "tp_insert"
        /\ lock = u

HostnameKinds == {"Hostname", "NonUtf8Hostname", "HostnameMissingNull"}

\* C14: a track_physical_link(n) that fails leaves the tracker as it was.
\* When hostname resolution fails the call returns a hostname error kind
\* with no add_target sent and the sampler untouched; when add_target is
\* rejected it returns Kstat, nothing is inserted and the entry of n, if
\* there is one, keeps its id; the call fails in no other way, and none of
\* its steps before the insert writes to the tracker.
C14_FailedTrackLeavesTracker ==
    [][/\ (returned'.op = "track_physical_link" /\ returned'.result # Ok
              /\ platform = "illumos")
          => /\ tracked_links' = tracked_links
             /\ UNCHANGED samplerVars
             /\ returned'.result.kind \in HostnameKinds \cup {"Kstat"}
             /\ returned'.result.kind \in HostnameKinds
                   => tasks' = tasks /\ \A t \in Tasks : ~Stepped(t)
             /\ returned'.result.kind = "Kstat"
                   => \E t \in Tasks :
                         /\ Left(t, "tp_await_add")
                         /\ tasks[t].resp.status = "err"
                         /\ tasks[t].link_name = returned'.link_name
                         /\ returned'.result = KstatErr
       /\ \A t \in Tasks :
            /\ (Returns(t, "tp_await_add") /\ tasks[t].resp.status = "err")
               => returned'.result = KstatErr /\ tracked_links' = tracked_links
            /\ (tasks[t].resp.status = "err" /\ tasks[t].req.type = "add")
               => tasks'[t].pc \notin MapOpPcs
            /\ (Stepped(t) /\ CallName(t) # "" /\ ~Left(t, "tp_insert")
                  /\ (tasks[t].op = "track_physical_link"
                        \/ tasks'[t].op = "track_physical_link"))
               => tracked_links' = tracked_links]_vars

\* The sampler rejected the add_target of a track_physical_link(n), which
\* returned Kstat while n is still mapped to the live id it had before.
C14_Witness ==
    /\ returned.op = "track_physical_link"
    /\ returned.result = KstatErr
    /\ tracked_links[returned.link_name] \in live

\* C15: the id of a track_physical_link that was cancelled after its
\* add_target succeeded and before its insert ran stays live in the sampler
\* with no tracker entry for good: in every later state it is live, it is
\* not in the tracker, no remove_target was sent for it, and no call in
\* progress holds it or is about to release it, whatever track_physical_link,
\* track_virtual_link and stop_tracking_link calls follow.
C15_CancelledTrackLeaksForGood ==
    \A h \in orphaned : targets[h].kind = "physical"
        => /\ h \in live
           /\ h \notin TrackedIds
           /\ removeCalls[h] = 0
           /\ \A t \in Tasks :
                 /\ tasks[t].id # h
                 /\ tasks[t].req.id # h
                 /\ tasks[t].resp.id # h

\* After the cancelled track of n, n was tracked again and stopped: the stop
\* released the later id, and the id of the cancelled call is still sampled.
C15_Witness ==
    /\ AllIdle
    /\ returned.op = "stop_tracking_link"
    /\ returned.result = Ok
    /\ \E h \in orphaned, h2 \in TargetIds :
          /\ targets[h].kind = "physical"
          /\ targets[h].link_name = returned.link_name
          /\ h \in live
          /\ h2 > h
          /\ targets[h2].link_name = returned.link_name
          /\ removeCalls[h2] = 1
          /\ h2 \notin live

\* The buffer holds a terminator byte; the bytes before its first one.
Terminated(out) == \E i \in 1..Len(out) : out[i] = 0
Prefix(out) ==
    LET i == CHOOSE k \in 1..Len(out) : out[k] = 0 /\ \A j \in 1..(k - 1) : out[j] # 0
    IN SubSeq(out, 1, i - 1)

\* C16: hostname() reports each failure by the kind named for its cause: a
\* failing gethostname gives Hostname, a buffer without a terminator byte
\* gives HostnameMissingNull, a prefix that is not UTF-8 text gives
\* NonUtf8Hostname; a successful call with a terminated valid prefix gives
\* that prefix.
C16_HostnameErrorByCause ==
    hostnameRet # NoHostnameRet
    => LET out == OutBuffer(syscall.written) IN
       /\ syscall.rc # 0
             => ~hostnameRet.ok /\ hostnameRet.err = "Hostname"
       /\ (syscall.rc = 0 /\ ~Terminated(out))
             => ~hostnameRet.ok /\ hostnameRet.err = "HostnameMissingNull"
       /\ (syscall.rc = 0 /\ Terminated(out) /\ ~IsUtf8(Prefix(out)))
             => ~hostnameRet.ok /\ hostnameRet.err = "NonUtf8Hostname"
       /\ (syscall.rc = 0 /\ Terminated(out) /\ IsUtf8(Prefix(out)))
             => hostnameRet.ok /\ hostnameRet.name = Prefix(out)

\* The serial the claim gives for a baseboard.
SerialOf(b) == IF b.type \in {"Gimlet", "Pc"} THEN b.identifier ELSE "unknown"

\* C17: serial_number() is total over the baseboard variants: the carried
\* identifier for Gimlet and Pc, the string "unknown" for Unknown; and it is
\* the serial of every physical and virtual link descriptor the manager
\* hands to the sampler, those in flight and those the sampler has accepted.
C17_SerialFromBaseboard ==
    /\ \A b \in Baseboards : serial_number([NoMeta EXCEPT !.baseboard = b]) = SerialOf(b)
    /\ (mgr = "ok" /\ platform = "illumos")
       => /\ metadata.baseboard \in Baseboards
          /\ \A h \in TargetIds :
                /\ targets[h].kind \in {"physical", "virtual"}
                /\ targets[h].serial = SerialOf(metadata.baseboard)
          /\ \A t \in Tasks : tasks[t].req.type = "add"
                => /\ tasks[t].req.link.kind \in {"physical", "virtual"}
                   /\ tasks[t].req.link.serial = SerialOf(metadata.baseboard)

\* On a Pc baseboard a physical and a virtual link are sampled, both under
\* the identifier of the board.
C17_Witness ==
    /\ metadata.baseboard.type = "Pc"
    /\ \E h1, h2 \in TargetIds :
          /\ targets[h1].kind = "physical"
          /\ targets[h2].kind = "virtual"
          /\ targets[h1].serial = metadata.baseboard.identifier
          /\ targets[h2].serial = metadata.baseboard.identifier
          /\ targets[h1].serial # "unknown"

\* The ids whose remove_target the sampler has rejected: it was asked to
\* release them and samples them still.
RejectedIds == {h \in TargetIds : removeCalls[h] >= 1 /\ h \in live}

\* C18: when stop_tracking_link(n) finds id h and the sampler rejects
\* remove_target(h), the call returns Kstat with n already out of the
\* tracker and not put back: from the rejection on h is live, is not in the
\* tracker and is held by no call but the rejected one, no further
\* remove_target is sent for it, and a stop_tracking_link(n) that finds n
\* absent returns Ok without a sampler call.
C18_RejectedRemovalLeaks ==
    /\ [](\A h \in RejectedIds :
            /\ h \notin TrackedIds
            /\ removeCalls[h] = 1
            /\ \A t \in Tasks :
                  (tasks[t].id = h \/ tasks[t].req.id = h)
                  => tasks[t].pc = "st_await_rm" /\ tasks[t].resp.status = "err")
    /\ [][/\ \A h \in RejectedIds : h \in live' /\ h \notin {tracked_links'[n] : n \in LinkNames}
          /\ \A t \in Tasks :
               /\ (Returns(t, "st_await_rm") /\ tasks[t].resp.status = "err")
                  => /\ returned' = [op |-> "stop_tracking_link",
                                     link_name |-> tasks[t].link_name, result |-> KstatErr]
                     /\ tasks[t].id \in RejectedIds
                     /\ tracked_links' = tracked_links
                     /\ tracked_links[tasks[t].link_name] # tasks[t].id
               /\ (Left(t, "st_remove") /\ tracked_links[tasks[t].link_name] = NoId)
                  => returned'.result = Ok /\ UNCHANGED samplerVars]_vars

\* The removal of n's id was rejected and a later stop_tracking_link(n) has
\* returned Ok: the id is still sampled and n is not tracked.
C18_Witness ==
    /\ AllIdle
    /\ returned.op = "stop_tracking_link"
    /\ returned.result = Ok
    /\ tracked_links[returned.link_name] = NoId
    /\ \E h \in RejectedIds : targets[h].link_name = returned.link_name

\* The stop_tracking_link calls that hold id h to release it.
Releasers(h) == {t \in Tasks : tasks[t].pc = "st_await_rm" /\ tasks[t].id = h}

\* C19: no id is handed to remove_target more than once, whatever the
\* interleaving of stop_tracking_link and track_physical_link calls: the
\* sampler has seen at most one remove_target per id, at most one stop holds
\* a given id, and an id a stop holds is no longer in the tracker for a
\* concurrent stop of the same name to find.
C19_ReleasedAtMostOnce ==
    \A h \in TargetIds :
        /\ removeCalls[h] <= 1
        /\ Cardinality(Releasers(h)) <= 1
        /\ \A t \in Releasers(h) :
              /\ h \notin TrackedIds
              /\ tasks[t].req = RemoveReq(h)
              /\ removeCalls[h] = IF tasks[t].resp.status = "none" THEN 0 ELSE 1
        /\ (removeCalls[h] = 1 /\ Releasers(h) = {}) => h \notin TrackedIds

\* Two stops of the same name ran concurrently: one holds the id and waits
\* for the sampler, the other found the name absent and has returned Ok.
C19_Witness ==
    /\ returned.op = "stop_tracking_link"
    /\ returned.result = Ok
    /\ \E t \in Tasks :
          /\ tasks[t].pc = "st_await_rm"
          /\ tasks[t].link_name = returned.link_name
          /\ tasks[t].resp.status = "none"
          /\ tasks[t].id \in live

\* The live ids a call in progress holds: bound to its `id`, or in a reply
\* it has not consumed yet.
InFlightIds == {h \in live : \E t \in Tasks : tasks[t].id = h \/ tasks[t].resp.id = h}

\* The live ids are a superset of the
\* tracked ones; the two sets are equal only while no virtual link has been
\* added, no entry was overwritten, no call in progress holds a live id, no
\* removal was rejected and no track was cancelled after its add; and each id
\* so produced is live and not tracked.
LiveCoversTracked ==
    /\ TrackedIds \subseteq live
    /\ live = TrackedIds
       => /\ virtDone = {} /\ superseded = {} /\ orphaned = {}
          /\ RejectedIds = {} /\ InFlightIds = {}
    /\ \A h \in virtDone \cup superseded \cup orphaned \cup RejectedIds \cup abandoned :
          h \in live /\ h \notin TrackedIds

=============================================================================
